---- MODULE Spec2Model ----
(***************************************************************************)
(* The station dashboard of Peta-Selection-v4.py / Peta-Selection.py:      *)
(* the cached spreadsheet loader (load_site_metadata) and the selection    *)
(* logic of main(), which Streamlit re-executes top to bottom on every     *)
(* user interaction.                                                       *)
(*                                                                         *)
(* Cells of the spreadsheet are tagged values: a number, a string (a       *)
(* sequence of one-character strings) or NaN (an empty cell).  Sequences   *)
(* are 1-based here, where the source's positions are 0-based.             *)
(***************************************************************************)
EXTENDS Integers, Sequences, FiniteSets, TLC

VARIABLES
    variant,   \* which of the two scripts runs: "v4" or "v1"
    file,      \* the workbook 'Metadata ALL - Sheet.xlsx' on disk
    cache,     \* st.cache_data's entry for load_site_metadata()
    reads,     \* how often the workbook has been read from disk
    edits,     \* how often the workbook has been changed on disk
    df,        \* main()'s df: what the last load_site_metadata() call returned
    sid,       \* st.session_state.selected_id_station
    radio,     \* the "Select Station Type" radio's value (selected_type)
    sb,        \* the "selected_site_dropdown" selectbox: identity and value
    view,      \* the "Map Mode" radio's value (v1 only)
    map,       \* the markers of the map rendered by the last run
    clicked,   \* st_folium's last_object_clicked
    out,       \* what the last run of the script rendered, and how it ended
    last       \* the last interaction and the selection before it

vars == <<variant, file, cache, reads, edits, df, sid, radio, sb, view, map,
          clicked, out, last>>

-----------------------------------------------------------------------------
(* Bounds of the model *)

\* rows in the whole workbook (session specification)
MaxRecords == 2
\* rows per sheet (loader specification)
MaxRows == 2
\* changes of the workbook on disk (loader specification)
MaxEdits == 1
\* rows in the whole workbook (index specification)
MaxSites == 2

-----------------------------------------------------------------------------
(* Cells and strings *)

NaN == [kind |-> "nan", val |-> <<>>]
Num(n) == [kind |-> "num", val |-> n]
Str(s) == [kind |-> "str", val |-> s]

\* a datetime cell (tgl_pasang) of <<year, month, day>>; an empty date cell
\* is NaT, which is NaN here
Date(d) == [kind |-> "date", val |-> d]

IsNa(c) == c.kind = "nan"

DigitChar == <<"0", "1", "2", "3", "4", "5", "6", "7", "8", "9">>

RECURSIVE Digits(_)
\* str(n) of a non-negative integer: its decimal digits
Digits(n) ==
    IF n < 10 THEN <<DigitChar[n + 1]>>
    ELSE Append(Digits(n \div 10), DigitChar[(n % 10) + 1])

\* str(x) / Series.astype(str) of one cell
PyStr(c) ==
    IF c.kind = "num" THEN Digits(c.val)
    ELSE IF c.kind = "str" THEN c.val
    ELSE <<"n", "a", "n">>

\* Python's == between a cell and a string: a number never equals a string
EqStr(c, s) == c.kind = "str" /\ c.val = s

\* the separator " - " of the display string
Sep == <<" ", "-", " ">>

\* the least position at which sep occurs in s, 0 if it does not
Find(s, sep) ==
    LET hits == {i \in 1..Len(s) :
                    /\ i + Len(sep) - 1 <= Len(s)
                    /\ SubSeq(s, i, i + Len(sep) - 1) = sep}
    IN  IF hits = {} THEN 0 ELSE CHOOSE i \in hits : \A j \in hits : i <= j

\* s.split(sep)[0]
SplitFirst(s, sep) ==
    IF Find(s, sep) = 0 THEN s ELSE SubSeq(s, 1, Find(s, sep) - 1)

\* "10001", the default of st.session_state.selected_id_station
DefaultId == <<"1", "0", "0", "0", "1">>

-----------------------------------------------------------------------------
(* The workbook and load_site_metadata *)

\* the file is absent, or is no workbook
Missing == [state |-> "missing", sheets |-> <<>>]
Unreadable == [state |-> "unreadable", sheets |-> <<>>]
Workbook(sheets) == [state |-> "ok", sheets |-> sheets]

\* load_site_metadata's results: None after a failure, else the table
None == [ok |-> FALSE, rows |-> <<>>]
Table(rows) == [ok |-> TRUE, rows |-> rows]

\* dropna with subset=['latt_station'] only
dropna_latitude_only(rows) ==
    SelectSeq(rows, LAMBDA r : ~IsNa(r.latt_station))

\* .dropna(subset=['latt_station', 'long_station'])
dropna(rows) ==
    SelectSeq(rows, LAMBDA r : ~IsNa(r.latt_station) /\ ~IsNa(r.long_station))

\* .assign(JENIS=sheet)
assign(rows, sheet) ==
    [i \in 1..Len(rows) |->
        [id_station   |-> rows[i].id_station,
         name_station |-> rows[i].name_station,
         nama_propinsi |-> rows[i].nama_propinsi,
         nama_kota    |-> rows[i].nama_kota,
         latt_station |-> rows[i].latt_station,
         long_station |-> rows[i].long_station,
         tgl_pasang   |-> rows[i].tgl_pasang,
         JENIS        |-> sheet]]

\* one entry of dfs: the projection of a sheet that has the required columns
SheetFrame(sheet) == assign(dropna(sheet.rows), sheet.name)

\* a concatenation that puts the last sheet's rows first
concat_last_first(frames) ==
    IF frames = <<>> THEN <<>>
    ELSE frames[Len(frames)] \o (IF Len(frames) > 1 THEN frames[1] ELSE <<>>)

RECURSIVE concat(_)
\* pd.concat(dfs.values(), ignore_index=True)
concat(frames) ==
    IF frames = <<>> THEN <<>>
    ELSE frames[1] \o concat(Tail(frames))

\* a loader that skips the sheets lacking a required column
ReadWorkbook_skipping(wb) ==
    IF wb.state # "ok" THEN None
    ELSE Table(concat([k \in 1..Len(wb.sheets) |->
                          IF wb.sheets[k].columns
                          THEN assign(dropna(wb.sheets[k].rows), wb.sheets[k].name)
                          ELSE <<>>]))

\* the body of load_site_metadata: the table, or None after any exception
ReadWorkbook(wb) ==
    IF wb.state # "ok" THEN None
    ELSE IF \E k \in 1..Len(wb.sheets) : ~wb.sheets[k].columns THEN None
    ELSE IF wb.sheets = <<>> THEN None
    ELSE Table(concat([k \in 1..Len(wb.sheets) |-> SheetFrame(wb.sheets[k])]))

\* st.cache_data: no entry yet
NoEntry == [full |-> FALSE, value |-> None]
Entry(v) == [full |-> TRUE, value |-> v]

\* a load that reads the workbook on every call
load_site_metadata_uncached == ReadWorkbook(file)

\* what load_site_metadata() returns: the cached value if there is one
load_site_metadata == IF cache.full THEN cache.value ELSE ReadWorkbook(file)

\* a cache that keeps tables only and forgets a failed load
CacheAfterLoad_tables_only ==
    IF cache.full THEN cache
    ELSE IF ReadWorkbook(file).ok THEN Entry(ReadWorkbook(file))
    ELSE NoEntry

\* the cache after the call
CacheAfterLoad == IF cache.full THEN cache ELSE Entry(ReadWorkbook(file))

\* the number of reads after the call
ReadsAfterLoad == IF cache.full THEN reads ELSE reads + 1

-----------------------------------------------------------------------------
(* The widgets and the script of main() *)

\* "selected_id_station" not in st.session_state
NoId == [set |-> FALSE, val |-> <<>>]
Id(s) == [set |-> TRUE, val |-> s]

\* selected_type when the radio has no options (Python's None)
PyNone == "<None>"
\* a radio that has not been rendered yet
Unset == "<unset>"

\* a selectbox that was not rendered by the last run
NoWidget == [options |-> <<>>, index |-> 0, value |-> 0]

\* no map was rendered by the last run
NoMap == [shown |-> FALSE, red |-> {}, blue |-> {}]

\* map_data.get("last_object_clicked") is None
NoClick == [set |-> FALSE, lat |-> 0, lng |-> 0]

\* the options of the "Map Mode" radio
Individual == "Individual Markers"
Clustered == "Clustered Markers"

Min(S) == CHOOSE i \in S : \A j \in S : i <= j

RECURSIVE unique(_)
\* Series.unique(): the distinct values in order of first occurrence
unique(s) ==
    IF s = <<>> THEN <<>>
    ELSE LET u == unique(SubSeq(s, 1, Len(s) - 1))
         IN  IF \E k \in 1..Len(u) : u[k] = s[Len(s)] THEN u
             ELSE Append(u, s[Len(s)])

\* a selector that offers every sheet of the workbook
station_types_all_sheets(rows) ==
    [k \in 1..Len(file.sheets) |-> file.sheets[k].name]

\* df["JENIS"].unique().tolist()
station_types(rows) == unique([i \in 1..Len(rows) |-> rows[i].JENIS])

\* st.sidebar.radio("Select Station Type", station_types)
RadioValue(options, stored) ==
    IF options = <<>> THEN PyNone
    ELSE IF \E k \in 1..Len(options) : options[k] = stored THEN stored
    ELSE options[1]

\* a filter that yields the rows of the table's first station type when no
\* row has type t
get_filtered_data_or_first(rows, t) ==
    SelectSeq([i \in 1..Len(rows) |-> i],
              LAMBDA i : IF \E j \in 1..Len(rows) : rows[j].JENIS = t
                         THEN rows[i].JENIS = t
                         ELSE rows[i].JENIS = rows[1].JENIS)

\* the index of df[df["JENIS"] == station_type]: the positions in df, in order
get_filtered_data(rows, t) ==
    SelectSeq([i \in 1..Len(rows) |-> i], LAMBDA i : rows[i].JENIS = t)

\* filtered_df["display"]: id_station_str + " - " + name_station, which pandas
\* leaves NaN where the name is NaN
Display(r) ==
    IF r.name_station.kind = "str"
    THEN Str(PyStr(r.id_station) \o Sep \o r.name_station.val)
    ELSE NaN

\* the position of the first row of the partition whose id_station_str is
\* the stored id; the source's except branch gives the first position
default_index(rows, fidx, s) ==
    LET hits == {k \in 1..Len(fidx) : PyStr(rows[fidx[k]].id_station) = s}
    IN  IF hits = {} THEN 1 ELSE Min(hits)

\* st.sidebar.selectbox(options, index, key): a widget whose options and
\* index are those of the widget of the run before keeps its value, any
\* other is a new widget showing options[index]
selectbox(w, options, index) ==
    IF w.options = options /\ w.index = index THEN w.value ELSE index

\* the markers create_selective_map draws: a star on every row whose id is
\* the selected id, a blue marker on the other rows of the selected type
create_selective_map(rows, t, selected) ==
    [shown |-> TRUE,
     red   |-> {i \in 1..Len(rows) : PyStr(rows[i].id_station) = selected},
     blue  |-> {i \in 1..Len(rows) :
                   /\ PyStr(rows[i].id_station) # selected
                   /\ rows[i].JENIS = t}]

\* the markers create_clustered_map draws: the rows of the selected type
create_clustered_map(rows, t) ==
    [shown |-> TRUE,
     red   |-> {},
     blue  |-> {i \in 1..Len(rows) : rows[i].JENIS = t}]

\* (lat - lat_i)^2 + (lon - lon_i)^2
Dist2(r, lat, lng) ==
    (r.latt_station.val - lat) * (r.latt_station.val - lat)
    + (r.long_station.val - lng) * (r.long_station.val - lng)

\* the last position of df at the least distance
idxmin_last(rows, lat, lng) ==
    CHOOSE i \in 1..Len(rows) :
        /\ \A j \in 1..Len(rows) :
              Dist2(rows[i], lat, lng) <= Dist2(rows[j], lat, lng)
        /\ \A j \in (i + 1)..Len(rows) :
              Dist2(rows[i], lat, lng) < Dist2(rows[j], lat, lng)

\* Series.idxmin(): the first position of df at the least distance
idxmin(rows, lat, lng) ==
    Min({i \in 1..Len(rows) :
            \A j \in 1..Len(rows) :
                Dist2(rows[i], lat, lng) <= Dist2(rows[j], lat, lng)})

\* df[df['id_station'] == selected_id_station]: the raw cell against the
\* string, over the whole table
DetailMatches(rows, selected) ==
    {i \in 1..Len(rows) : EqStr(rows[i].id_station, selected)}

\* what a run that never happened rendered
NeverRan ==
    [ran |-> "never", err |-> "", at |-> "", warned |-> FALSE,
     type |-> Unset, picker |-> FALSE, bound |-> FALSE, selected |-> <<>>,
     mapShown |-> FALSE, cand |-> 0, button |-> FALSE, detail |-> 0]

\* main() returned at "if df is None"
Stopped == [NeverRan EXCEPT !.ran = "stopped"]

(***************************************************************************)
(* One execution of main() below "if df is None: return", written as the   *)
(* blocks of the script in their order; each block hands what it computed  *)
(* to the next.  An exception ends the run where it is raised, st.rerun()  *)
(* ends it and starts the script again.                                    *)
(***************************************************************************)

\* the state after the sidebar: the station type, whether the else branch
\* ran (empty), whether .split raised, the local selected_id_station
\* (bound, token), the session's stored id and the selectbox
Selection(t, empty, raised, bound, token, s, w) ==
    [type |-> t, empty |-> empty, raised |-> raised, bound |-> bound,
     token |-> token, sid |-> s, sb |-> w]

\* selected_site_display.split(" - ")[0], raising on a NaN display, and the
\* update of st.session_state.selected_id_station
SelectId(s1, t, options, index, value) ==
    IF options[value].kind = "str"
    THEN Selection(t, FALSE, FALSE, TRUE,
                   SplitFirst(options[value].val, Sep),
                   SplitFirst(options[value].val, Sep),
                   [options |-> options, index |-> index, value |-> value])
    ELSE Selection(t, FALSE, TRUE, FALSE, <<>>, s1,
                   [options |-> options, index |-> index, value |-> value])

\* the selectbox over the display list, at the default index
SelectSite(s1, t, w, options, index) ==
    SelectId(s1, t, options, index, selectbox(w, options, index))

\* filtered_df["display"].tolist()
filtered_display_list(rows, fidx) ==
    [k \in 1..Len(fidx) |-> Display(rows[fidx[k]])]

\* "if not filtered_df.empty: ... else: st.sidebar.warning(...)"
SelectBlock(rows, s1, t, fidx, w) ==
    IF fidx = <<>>
    THEN Selection(t, TRUE, FALSE, FALSE, <<>>, s1, w)
    ELSE SelectSite(s1, t, w, filtered_display_list(rows, fidx),
                    default_index(rows, fidx, s1))

\* the sidebar: session state default, type radio, filter, station picker
Sidebar(rows, s0, radio0, w) ==
    SelectBlock(rows,
                IF s0.set THEN s0.val ELSE DefaultId,
                RadioValue(station_types(rows), radio0),
                get_filtered_data(rows, RadioValue(station_types(rows), radio0)),
                w)

\* st_folium(map_obj): the component is keyed by the map it is given, so it
\* keeps last_object_clicked while the map is that of the run before and
\* starts with none on another map
st_folium(mode, newmap, map0, clicked0) ==
    [drawn |-> TRUE, raised |-> FALSE, view |-> mode, map |-> newmap,
     clicked |-> IF map0 = newmap THEN clicked0 ELSE NoClick]

\* the map of the run: v4 highlights the local selected_id_station, v1 the
\* session's id, and v1's clustered mode nothing
MapOf(v, rows, sel, mode, map0, clicked0) ==
    st_folium(mode,
              IF v = "v4" THEN create_selective_map(rows, sel.type, sel.token)
              ELSE IF mode = Individual
                   THEN create_selective_map(rows, sel.type, sel.sid)
                   ELSE create_clustered_map(rows, sel.type),
              map0, clicked0)

\* the top of the map tab; v4 passes selected_id_station, which is unbound
\* after the else branch of the sidebar
DrawMap(v, rows, sel, view0, map0, clicked0) ==
    IF sel.raised
    THEN [drawn |-> FALSE, raised |-> FALSE, view |-> view0, map |-> map0,
          clicked |-> clicked0]
    ELSE IF v = "v4" /\ ~sel.bound
    THEN [drawn |-> FALSE, raised |-> TRUE, view |-> view0, map |-> map0,
          clicked |-> clicked0]
    ELSE MapOf(v, rows, sel,
               IF v = "v1" THEN RadioValue(<<Individual, Clustered>>, view0)
               ELSE view0,
               map0, clicked0)

\* clicked_station: the row nearest to the clicked point, 0 for None
clicked_station(rows, mp) ==
    IF mp.drawn /\ mp.clicked.set /\ rows # <<>>
    THEN idxmin(rows, mp.clicked.lat, mp.clicked.lng)
    ELSE 0

\* .iloc[0] of the matching rows; raises IndexError when there is none
iloc0(matches) ==
    IF matches = {}
    THEN [raised |-> TRUE, err |-> "IndexError", row |-> 0]
    ELSE [raised |-> FALSE, err |-> "", row |-> Min(matches)]

\* selected_site = df[df['id_station'] == selected_id_station].iloc[0];
\* after the else branch of the sidebar the local is unbound
selected_site(rows, sel) ==
    IF ~sel.bound
    THEN [raised |-> TRUE, err |-> "NameError", row |-> 0]
    ELSE iloc0(DetailMatches(rows, sel.token))

\* a click that is taken as the selection without the button
confirmed_by_click(pressed, cand) == cand # 0

\* "if clicked_station is not None: ... if st.button(...)": the assignment
\* and st.rerun() run only when the button was pressed
confirmed(pressed, cand) == pressed /\ cand # 0

\* the end of the run: what it rendered and the state it leaves
EndOfRun(rows, sel, mp, cand, pressed, det) ==
    [sid     |-> IF confirmed(pressed, cand) THEN PyStr(rows[cand].id_station)
                 ELSE sel.sid,
     radio   |-> sel.type,
     sb      |-> sel.sb,
     view    |-> mp.view,
     map     |-> mp.map,
     clicked |-> mp.clicked,
     rerun   |-> confirmed(pressed, cand),
     out     |->
        [ran      |-> IF \/ sel.raised
                         \/ mp.raised
                         \/ mp.drawn /\ ~confirmed(pressed, cand) /\ det.raised
                      THEN "error" ELSE "done",
         err      |-> IF sel.raised THEN "AttributeError"
                      ELSE IF mp.raised THEN "NameError"
                      ELSE IF confirmed(pressed, cand) THEN ""
                      ELSE det.err,
         at       |-> IF sel.raised THEN "select"
                      ELSE IF mp.raised THEN "map"
                      ELSE IF confirmed(pressed, cand) THEN ""
                      ELSE IF det.raised THEN "detail"
                      ELSE "",
         warned   |-> sel.empty,
         type     |-> sel.type,
         picker   |-> ~sel.empty,
         bound    |-> sel.bound,
         selected |-> sel.token,
         mapShown |-> mp.drawn,
         cand     |-> cand,
         button   |-> cand # 0,
         detail   |-> IF mp.drawn /\ ~confirmed(pressed, cand) THEN det.row
                      ELSE 0]]

\* the click block, the button, and the selected-site panel
AfterMap(v, rows, sel, mp, pressed) ==
    EndOfRun(rows, sel, mp, clicked_station(rows, mp), pressed,
             selected_site(rows, sel))

\* the tabs
Tabs(v, rows, sel, view0, map0, clicked0, pressed) ==
    AfterMap(v, rows, sel, DrawMap(v, rows, sel, view0, map0, clicked0),
             pressed)

\* s0, radio0, sb0, view0, map0, clicked0: the session state and the widget
\* values the browser sends; pressed: the "Use this station in selection"
\* button was clicked
Pass(v, rows, s0, radio0, sb0, view0, map0, clicked0, pressed) ==
    Tabs(v, rows, Sidebar(rows, s0, radio0, sb0), view0, map0, clicked0, pressed)

\* st.rerun(): the script starts again with the state the first pass left
Rerun(v, rows, p1) ==
    IF p1.rerun
    THEN Pass(v, rows, Id(p1.sid), p1.radio, p1.sb, p1.view, p1.map,
              p1.clicked, FALSE)
    ELSE p1

\* the state a whole run leaves: ld is what load_site_metadata() returned,
\* p1 the pass the interaction started, p2 the last pass
Commit(op, arg, ld, p1, p2) ==
    /\ cache' = CacheAfterLoad
    /\ reads' = ReadsAfterLoad
    /\ df' = ld
    /\ last' = [op |-> op, arg |-> arg, sid |-> sid, radio |-> radio,
                cand |-> out.cand,
                assigned |-> IF ld.ok /\ p1.rerun THEN p1.sid ELSE <<>>]
    /\ IF ld.ok
       THEN /\ sid' = Id(p2.sid)
            /\ radio' = p2.radio
            /\ sb' = p2.sb
            /\ view' = p2.view
            /\ map' = p2.map
            /\ clicked' = p2.clicked
            /\ out' = p2.out
       ELSE /\ out' = Stopped
            /\ UNCHANGED <<sid, radio, sb, view, map, clicked>>
    /\ UNCHANGED <<variant, file, edits>>

Passes(op, arg, ld, p1) ==
    Commit(op, arg, ld, p1, Rerun(variant, ld.rows, p1))

\* main() from its first line: the cached load, the return on None, the script
main(op, arg, ld, radio0, sb0, clicked0, view0, pressed) ==
    Passes(op, arg, ld,
           Pass(variant, ld.rows, sid, radio0, sb0, view0, map, clicked0,
                pressed))

\* a whole run of the script on one interaction
Refresh(op, arg, radio0, sb0, clicked0, view0, pressed) ==
    main(op, arg, load_site_metadata, radio0, sb0, clicked0, view0, pressed)

-----------------------------------------------------------------------------
(* The user's interactions; each re-executes the script *)

\* the browser opens the page: the first run of the session
Start ==
    /\ out.ran = "never"
    /\ Refresh("Start", 0, radio, sb, clicked, view, FALSE)

\* the user chooses another station type on the radio
ChangeType(t) ==
    /\ out.ran \in {"done", "error"}
    /\ \E k \in 1..Len(station_types(df.rows)) : station_types(df.rows)[k] = t
    /\ t # radio
    /\ Refresh("ChangeType", 0, t, sb, clicked, view, FALSE)

\* the user picks the p-th entry of the station picker
Pick(p) ==
    /\ out.picker
    /\ p \in 1..Len(sb.options)
    /\ p # sb.value
    /\ Refresh("Pick", p, radio, [sb EXCEPT !.value = p], clicked, view,
                  FALSE)

\* the user clicks the marker of row i on the map
ClickMap(i) ==
    /\ out.mapShown
    /\ i \in map.red \cup map.blue
    /\ Refresh("Click", i, radio, sb,
                  [set |-> TRUE,
                   lat |-> df.rows[i].latt_station.val,
                   lng |-> df.rows[i].long_station.val],
                  view, FALSE)

\* the user presses "Use this station in selection"
Confirm ==
    /\ out.button
    /\ Refresh("Confirm", out.cand, radio, sb, clicked, view, TRUE)

\* the user switches the map mode (v1 only)
ChangeView(m) ==
    /\ variant = "v1"
    /\ out.ran \in {"done", "error"}
    /\ out.at # "select"
    /\ m \in {Individual, Clustered}
    /\ m # view
    /\ Refresh("View", 0, radio, sb, clicked, m, FALSE)

-----------------------------------------------------------------------------
(* The tables of the session specification *)

SheetNames == <<"AWS", "ARG">>

SessionIds == {Num(10001), Str(DefaultId), Str(<<"1", "0", "0", "0", "2">>)}
SessionNames == {NaN, Str(<<"a">>)}
SessionCoords == {<<0, 0>>, <<0, 1>>}

\* one row of a sheet, in the columns of the projection that the model keeps
Row(i, n, p, k, la, lo, d) ==
    [id_station    |-> i,
     name_station  |-> n,
     nama_propinsi |-> p,
     nama_kota     |-> k,
     latt_station  |-> la,
     long_station  |-> lo,
     tgl_pasang    |-> d]

\* the descriptive fields of the session's records are all present
SomeProvince == Str(<<"A", "b">>)
SomeDistrict == Str(<<"b">>)
SomeDate == Date(<<2020, 2, 1>>)

SessionRows ==
    {Row(i, n, SomeProvince, SomeDistrict, Num(c[1]), Num(c[2]), SomeDate) :
        i \in SessionIds, n \in SessionNames, c \in SessionCoords}

SeqsUpTo(S, n) == UNION {[1..k -> S] : k \in 0..n}

\* station_id is unique within a station type (in string form)
UniqueIds(rows) ==
    \A i, j \in 1..Len(rows) :
        PyStr(rows[i].id_station) = PyStr(rows[j].id_station) => i = j

SessionSheets == {r \in SeqsUpTo(SessionRows, MaxRecords) : UniqueIds(r)}

SessionWorkbooks ==
    {Workbook(<<[name |-> SheetNames[1], columns |-> q[3], rows |-> q[1]],
                [name |-> SheetNames[2], columns |-> q[4], rows |-> q[2]]>>) :
        q \in {x \in SessionSheets \X SessionSheets \X BOOLEAN \X BOOLEAN :
                  Len(x[1]) + Len(x[2]) <= MaxRecords}}
    \cup {Missing, Unreadable}

Init ==
    /\ variant \in {"v4", "v1"}
    /\ file \in SessionWorkbooks
    /\ cache = NoEntry
    /\ reads = 0
    /\ edits = 0
    /\ df = None
    /\ sid = NoId
    /\ radio = Unset
    /\ sb = NoWidget
    /\ view = Unset
    /\ map = NoMap
    /\ clicked = NoClick
    /\ out = NeverRan
    /\ last = [op |-> "Init", arg |-> 0, sid |-> NoId, radio |-> Unset,
               cand |-> 0, assigned |-> <<>>]

Next ==
    \/ Start
    \/ \E t \in {SheetNames[k] : k \in 1..Len(SheetNames)} : ChangeType(t)
    \/ \E p \in 1..MaxRecords : Pick(p)
    \/ \E i \in 1..MaxRecords : ClickMap(i)
    \/ Confirm
    \/ \E m \in {Individual, Clustered} : ChangeView(m)

Spec == Init /\ [][Next]_vars

-----------------------------------------------------------------------------
(* The loader specification: calls of load_site_metadata() in one process  *)
(* while the workbook changes on disk                                      *)

LoaderRows ==
    {Row(Num(10001), Str(<<"a">>), SomeProvince, SomeDistrict, la, lo,
         SomeDate) :
        la \in {NaN, Num(0)}, lo \in {NaN, Num(1)}}

LoaderSheets == SeqsUpTo(LoaderRows, MaxRows)

LoaderWorkbooks ==
    {Workbook(<<[name |-> SheetNames[1], columns |-> q[2], rows |-> q[1]]>>) :
        q \in LoaderSheets \X BOOLEAN}
    \cup
    {Workbook(<<[name |-> SheetNames[1], columns |-> q[3], rows |-> q[1]],
                [name |-> SheetNames[2], columns |-> q[4], rows |-> q[2]]>>) :
        q \in {x \in LoaderSheets \X LoaderSheets \X BOOLEAN \X BOOLEAN :
                  Len(x[1]) + Len(x[2]) <= MaxRows}}
    \cup {Missing, Unreadable}

InitLoad ==
    /\ variant = "v4"
    /\ file \in LoaderWorkbooks
    /\ cache = NoEntry
    /\ reads = 0
    /\ edits = 0
    /\ df = None
    /\ sid = NoId
    /\ radio = Unset
    /\ sb = NoWidget
    /\ view = Unset
    /\ map = NoMap
    /\ clicked = NoClick
    /\ out = NeverRan
    /\ last = [op |-> "Init", src |-> Missing, hit |-> FALSE]

Session == <<variant, sid, radio, sb, view, map, clicked, out>>

\* df = load_site_metadata(); src is the workbook as the cached read saw it
Load ==
    /\ df' = load_site_metadata
    /\ cache' = CacheAfterLoad
    /\ reads' = ReadsAfterLoad
    /\ last' = [op |-> "Load",
                src |-> IF cache.full THEN last.src ELSE file,
                hit |-> cache.full]
    /\ UNCHANGED <<file, edits, Session>>

\* the workbook changes on disk
Edit(wb) ==
    /\ edits < MaxEdits
    /\ file' = wb
    /\ edits' = edits + 1
    /\ last' = [last EXCEPT !.op = "Edit"]
    /\ UNCHANGED <<cache, reads, df, Session>>

\* the file is deleted
DeleteFile ==
    /\ file.state = "ok"
    /\ Edit(Missing)

\* a required column of sheet k is removed
DropColumn(k) ==
    /\ file.state = "ok"
    /\ k \in 1..Len(file.sheets)
    /\ file.sheets[k].columns
    /\ Edit([file EXCEPT !.sheets[k].columns = FALSE])

\* a row is added to sheet k
AppendRow(k, r) ==
    /\ file.state = "ok"
    /\ k \in 1..Len(file.sheets)
    /\ Len(file.sheets[k].rows) < MaxRows
    /\ Edit([file EXCEPT !.sheets[k].rows = Append(@, r)])

\* the last row of sheet k is removed
RemoveRow(k) ==
    /\ file.state = "ok"
    /\ k \in 1..Len(file.sheets)
    /\ file.sheets[k].rows # <<>>
    /\ Edit([file EXCEPT !.sheets[k].rows = SubSeq(@, 1, Len(@) - 1)])

\* the missing required column of sheet k is put back
RestoreColumn(k) ==
    /\ file.state = "ok"
    /\ k \in 1..Len(file.sheets)
    /\ ~file.sheets[k].columns
    /\ Edit([file EXCEPT !.sheets[k].columns = TRUE])

\* the workbooks put in the place of a missing or unreadable file: one
\* sheet with all its columns and at most one row
ReplacementWorkbooks ==
    {Workbook(<<[name |-> SheetNames[1], columns |-> TRUE, rows |-> r]>>) :
        r \in SeqsUpTo(LoaderRows, 1)}

\* a missing or unreadable file is replaced by a workbook
WriteFile(wb) ==
    /\ file.state # "ok"
    /\ wb.state = "ok"
    /\ Edit(wb)

NextLoad ==
    \/ Load
    \/ \E k \in 1..Len(SheetNames) : RestoreColumn(k)
    \/ \E wb \in ReplacementWorkbooks : WriteFile(wb)
    \/ DeleteFile
    \/ \E k \in 1..Len(SheetNames) : DropColumn(k)
    \/ \E k \in 1..Len(SheetNames) : \E r \in LoaderRows : AppendRow(k, r)
    \/ \E k \in 1..Len(SheetNames) : RemoveRow(k)

SpecLoad == InitLoad /\ [][NextLoad]_vars

-----------------------------------------------------------------------------
(* The panels of main() and the queries on the table *)

\* the placeholder 'N/A'
NA == <<"N", "/", "A">>

\* a number in two digits, as %m and %d print it
Pad2(n) == IF n < 10 THEN <<"0">> \o Digits(n) ELSE Digits(n)

\* Timestamp.strftime("%m/%d/%Y")
strftime_mdY(d) == Pad2(d[2]) \o <<"/">> \o Pad2(d[3]) \o <<"/">> \o Digits(d[1])

\* Series.dt.strftime('%d/%m/%Y') of one timestamp
strftime_dmY(d) == Pad2(d[3]) \o <<"/">> \o Pad2(d[2]) \o <<"/">> \o Digits(d[1])

\* what a panel or a query yields: the exception it raised if any, the
\* positions in df of the rows it shows, the texts it renders
Result(err, rows, text) == [err |-> err, rows |-> rows, text |-> text]

\* the popup of a marker: install_date is 'N/A' unless tgl_pasang is a date
popup_content(r) ==
    Result("", <<>>,
           <<IF ~IsNa(r.tgl_pasang) /\ r.tgl_pasang.kind = "date"
             THEN strftime_mdY(r.tgl_pasang.val) ELSE NA>>)

\* the "Procurement Date" line of the selected-site panel:
\* selected_site['tgl_pasang'].strftime("%m/%d/%Y"), which NaT refuses
selected_site_panel(r) ==
    IF r.tgl_pasang.kind = "date"
    THEN Result("", <<>>, <<strftime_mdY(r.tgl_pasang.val)>>)
    ELSE Result("ValueError", <<>>, <<>>)

\* str.lower of one character
Lower(ch) == IF ch = "A" THEN "a" ELSE IF ch = "B" THEN "b" ELSE ch

\* re.compile(term, re.IGNORECASE) fails: an opening parenthesis that is
\* never closed
re_error(term) ==
    \E i \in 1..Len(term) :
        /\ term[i] = "("
        /\ ~\E j \in (i + 1)..Len(term) : term[j] = ")"

\* re.search(term, s, re.IGNORECASE) for a term of letters, blanks, hyphens
\* and dots: a dot stands for any character
re_search(term, s) ==
    \E p \in 1..(Len(s) - Len(term) + 1) :
        \A i \in 1..Len(term) :
            \/ term[i] = "."
            \/ Lower(term[i]) = Lower(s[p + i - 1])

\* the .str accessor of a column: pandas refuses it on a column that holds
\* no string (all cells empty or numeric)
str_accessor_fails(rows, col) ==
    /\ rows # <<>>
    /\ \A i \in 1..Len(rows) : rows[i][col].kind # "str"

\* Series.str.contains(term, case=False, na=False) of one cell
contains(c, term) == c.kind = "str" /\ re_search(term, c.val)

\* the columns the search looks in, in the order of the expression
SearchColumns == <<"name_station", "nama_propinsi", "nama_kota">>

\* search_df: df itself for an empty term, else the rows one of whose three
\* columns contains the term
search_df(rows, term) ==
    IF term = <<>> THEN Result("", [i \in 1..Len(rows) |-> i], <<>>)
    ELSE IF str_accessor_fails(rows, SearchColumns[1])
    THEN Result("AttributeError", <<>>, <<>>)
    ELSE IF re_error(term) THEN Result("re.error", <<>>, <<>>)
    ELSE IF \/ str_accessor_fails(rows, SearchColumns[2])
            \/ str_accessor_fails(rows, SearchColumns[3])
    THEN Result("AttributeError", <<>>, <<>>)
    ELSE Result("",
                SelectSeq([i \in 1..Len(rows) |-> i],
                          LAMBDA i : \E k \in 1..Len(SearchColumns) :
                                        contains(rows[i][SearchColumns[k]], term)),
                <<>>)

\* search_df['tgl_pasang'].dt.strftime('%d/%m/%Y'): NaT gives an empty
\* cell; pandas refuses .dt on a column that holds no date
tgl_pasang_str(rows, found) ==
    IF found.err # "" THEN found
    ELSE IF rows # <<>> /\ \A i \in 1..Len(rows) : rows[i].tgl_pasang.kind # "date"
    THEN Result("AttributeError", <<>>, <<>>)
    ELSE Result("", found.rows,
                [k \in 1..Len(found.rows) |->
                    IF rows[found.rows[k]].tgl_pasang.kind = "date"
                    THEN strftime_dmY(rows[found.rows[k]].tgl_pasang.val)
                    ELSE <<>>])

\* the directory tab: the search box, the date column, the table
site_directory(rows, term) == tgl_pasang_str(rows, search_df(rows, term))

-----------------------------------------------------------------------------
(* The index specification: the panels and the queries, applied to a       *)
(* loaded table                                                            *)

\* ids and names: a numeric id, string ids with and without the separator
\* in them, names that are present, empty, or hold the separator
IndexIdNames ==
    {<<Num(10001), Str(<<"a">>)>>,
     <<Num(10001), NaN>>,
     <<Str(<<"1">>), NaN>>,
     <<Str(<<"1">>), Str(<<"2", " ", "-", " ", "a">>)>>,
     <<Str(<<"1", " ", "-", " ", "2">>), Str(<<"a">>)>>}

\* records that differ in id and name, and records that differ from the
\* first of them in place, in coordinates or in install date, one of them
\* without a latitude
IndexRows ==
    {Row(q[1], q[2], SomeProvince, SomeDistrict, Num(0), Num(0), SomeDate) :
        q \in IndexIdNames}
    \cup
    {Row(Num(10001), Str(<<"a">>), NaN, NaN, Num(0), Num(0), SomeDate),
     Row(Num(10001), Str(<<"a">>), NaN, SomeDistrict, Num(0), Num(0), SomeDate),
     Row(Num(10001), Str(<<"a">>), SomeProvince, SomeDistrict, Num(0), Num(2),
         SomeDate),
     Row(Num(10001), Str(<<"a">>), SomeProvince, SomeDistrict, Num(0), Num(0),
         NaN),
     Row(Num(10001), Str(<<"a">>), SomeProvince, SomeDistrict, NaN, Num(0),
         SomeDate)}

\* the rows of a workbook, cut into its two sheets after the k-th
IndexSheets ==
    {q \in {<<SubSeq(x[1], 1, x[2]), SubSeq(x[1], x[2] + 1, Len(x[1]))>> :
               x \in {y \in SeqsUpTo(IndexRows, MaxSites) \X (0..MaxSites) :
                         y[2] <= Len(y[1])}} :
        UniqueIds(q[1]) /\ UniqueIds(q[2])}

IndexWorkbooks ==
    {Workbook(<<[name |-> SheetNames[1], columns |-> TRUE, rows |-> q[1]],
                [name |-> SheetNames[2], columns |-> TRUE, rows |-> q[2]]>>) :
        q \in IndexSheets}

\* the points of the map a click can report
ClickPoints == {<<0, 0>>, <<0, 1>>, <<0, 2>>}

\* the station types a filter is asked for: the sheets' and an unknown one
FilterTypes == {SheetNames[k] : k \in 1..Len(SheetNames)} \cup {"XXX"}

\* what is typed in the search box
SearchTerms ==
    {<<>>, <<"a">>, <<"B">>, <<"a", "b">>, <<".">>, <<"(">>}

\* the table is loaded; no panel has been rendered yet
InitIndex ==
    /\ variant = "v4"
    /\ file \in IndexWorkbooks
    /\ cache = Entry(ReadWorkbook(file))
    /\ reads = 1
    /\ edits = 0
    /\ df = ReadWorkbook(file)
    /\ sid = NoId
    /\ radio = Unset
    /\ sb = NoWidget
    /\ view = Unset
    /\ map = NoMap
    /\ clicked = NoClick
    /\ out = Result("", <<>>, <<>>)
    /\ last = [op |-> "Init", arg |-> <<>>]

\* a panel or a query ran with arguments arg and yielded res
Yield(op, arg, res) ==
    /\ out' = res
    /\ last' = [op |-> op, arg |-> arg]
    /\ UNCHANGED <<variant, file, cache, reads, edits, df, sid, radio, sb,
                   view, map, clicked>>

\* the selected-site panel is rendered for the record at position i
ShowDetail(i) ==
    /\ i \in 1..Len(df.rows)
    /\ Yield("detail", i, selected_site_panel(df.rows[i]))

\* the popup of the marker of the record at position i is built
ShowPopup(i) ==
    /\ i \in 1..Len(df.rows)
    /\ Yield("popup", i, popup_content(df.rows[i]))

\* the directory tab is rendered with term in the search box
Search(term) ==
    /\ term \in SearchTerms
    /\ Yield("search", term, site_directory(df.rows, term))

\* the click block finds the station nearest to the clicked point
Nearest(pt) ==
    /\ df.rows # <<>>
    /\ Yield("nearest", pt,
             Result("",
                    <<clicked_station(df.rows,
                                      [drawn |-> TRUE,
                                       clicked |-> [set |-> TRUE,
                                                    lat |-> pt[1],
                                                    lng |-> pt[2]]])>>,
                    <<>>))

\* the table is filtered by station type t
Filter(t) ==
    /\ t \in FilterTypes
    /\ Yield("filter", t, Result("", get_filtered_data(df.rows, t), <<>>))

\* the k-th entry of the station picker of type t is chosen
Choose(t, k) ==
    /\ k \in 1..Len(get_filtered_data(df.rows, t))
    /\ Yield("choose", <<t, k>>,
             LET fidx == get_filtered_data(df.rows, t)
                 sel  == SelectId(DefaultId, t,
                                  filtered_display_list(df.rows, fidx), 1, k)
             IN  Result(IF sel.raised THEN "AttributeError" ELSE "",
                        <<fidx[k]>>, <<sel.sid>>))

\* the station type radio is rendered and the table filtered by its value;
\* stored is the value the browser sends: none on the first run, else one
\* of the options
SelectType(stored) ==
    /\ \/ stored = Unset
       \/ \E k \in 1..Len(station_types(df.rows)) :
             station_types(df.rows)[k] = stored
    /\ radio' = RadioValue(station_types(df.rows), stored)
    /\ out' = Result("",
                     get_filtered_data(df.rows,
                                       RadioValue(station_types(df.rows), stored)),
                     station_types(df.rows))
    /\ last' = [op |-> "type", arg |-> stored]
    /\ UNCHANGED <<variant, file, cache, reads, edits, df, sid, sb, view, map,
                   clicked>>

NextIndex ==
    \/ \E i \in 1..MaxSites : ShowDetail(i)
    \/ \E i \in 1..MaxSites : ShowPopup(i)
    \/ \E term \in SearchTerms : Search(term)
    \/ \E pt \in ClickPoints : Nearest(pt)
    \/ \E t \in FilterTypes : Filter(t)
    \/ \E t \in FilterTypes : \E k \in 1..MaxSites : Choose(t, k)
    \/ \E stored \in FilterTypes \cup {Unset} : SelectType(stored)

SpecIndex == InitIndex /\ [][NextIndex]_vars

-----------------------------------------------------------------------------
(* Notions the properties are stated in *)

\* the positions in df of the records of station type t
PartitionOf(t) == {i \in 1..Len(df.rows) : df.rows[i].JENIS = t}

\* the ids, in string form, of the records of station type t
IdsOf(t) == {PyStr(df.rows[i].id_station) : i \in PartitionOf(t)}

\* the id, in string form, of the first record of station type t
FirstIdOf(t) == PyStr(df.rows[Min(PartitionOf(t))].id_station)

\* the load of workbook wb fails
LoadFails(wb) ==
    \/ wb.state # "ok"
    \/ \E k \in 1..Len(wb.sheets) : ~wb.sheets[k].columns

\* a row of a sheet that has both coordinates
HasCoordinates(r) == r.latt_station.kind = "num" /\ r.long_station.kind = "num"

RECURSIVE CountValid(_)
\* the number of rows with both coordinates in a sequence of sheets
CountValid(sheets) ==
    IF sheets = <<>> THEN 0
    ELSE Cardinality({j \in 1..Len(sheets[1].rows) :
                         HasCoordinates(sheets[1].rows[j])})
         + CountValid(Tail(sheets))

\* the last run reached the selected-site panel
ReachedDetail == out.ran \in {"done", "error"} /\ out.at \notin {"select", "map"}

-----------------------------------------------------------------------------
(* Properties *)

\* C1: after a change of the station type from A, where the stored id X is
\* the id of a record of A, to B, the selection block does not raise and the
\* stored id is X if B has a record with id X and the id of B's first
\* record otherwise.
C1_TypeChange ==
    (/\ last.op = "ChangeType"
     /\ last.sid.set
     /\ last.sid.val \in IdsOf(last.radio))
    => /\ out.at # "select"
       /\ sid.val = IF last.sid.val \in IdsOf(radio) THEN last.sid.val
                    ELSE FirstIdOf(radio)

\* C2: after the confirmation of a map candidate of another station type,
\* whose id no record of the active type has, the stored id is the
\* candidate's id and the station type is unchanged.
C2_ConfirmKeepsCandidate ==
    (/\ last.op = "Confirm"
     /\ df.rows[last.cand].JENIS # last.radio
     /\ PyStr(df.rows[last.cand].id_station) \notin IdsOf(last.radio))
    => /\ sid.val = PyStr(df.rows[last.cand].id_station)
       /\ radio = last.radio

\* C3: in a run with a non-empty active partition the record of the
\* selected-site panel and every starred marker are of the active type.
C3_PointsInsidePartition ==
    (out.ran \in {"done", "error"} /\ ~out.warned)
    => /\ out.detail # 0 => df.rows[out.detail].JENIS = radio
       /\ out.mapShown => \A i \in map.red : df.rows[i].JENIS = radio

\* C4: the lookup of the selected station finds a record with the selected
\* id whenever the active partition has one, be the id stored as a number
\* or as a string, and does not raise.
C4_LookupCanonical ==
    (ReachedDetail /\ out.bound /\ out.selected \in IdsOf(radio))
    => /\ out.err # "IndexError"
       /\ out.detail # 0
       /\ PyStr(df.rows[out.detail].id_station) = out.selected

\* C5: every row of the loaded table has both coordinates, no input row
\* lacking one is in it, and it has as many rows as the workbook has rows
\* with both coordinates, over all sheets.
C5_CoordinateFilter ==
    df.ok =>
       /\ \A i \in 1..Len(df.rows) :
             ~IsNa(df.rows[i].latt_station) /\ ~IsNa(df.rows[i].long_station)
       /\ \A k \in 1..Len(last.src.sheets) :
             \A j \in 1..Len(last.src.sheets[k].rows) :
                ~HasCoordinates(last.src.sheets[k].rows[j])
                => \A i \in 1..Len(df.rows) :
                      \/ df.rows[i].JENIS # last.src.sheets[k].name
                      \/ df.rows[i].latt_station
                            # last.src.sheets[k].rows[j].latt_station
                      \/ df.rows[i].long_station
                            # last.src.sheets[k].rows[j].long_station
       /\ Len(df.rows) = CountValid(last.src.sheets)

\* C5 witness: a table loaded from two sheets, one of which has a row
\* without a coordinate beside a row that has both
C5_Witness ==
    /\ df.ok
    /\ Len(last.src.sheets) = 2
    /\ df.rows # <<>>
    /\ \E k \in 1..2 : \E j \in 1..Len(last.src.sheets[k].rows) :
          ~HasCoordinates(last.src.sheets[k].rows[j])

\* C6: when the file is missing or unreadable or a sheet lacks a required
\* column, the load yields None, no row of another sheet, and main() stops
\* before the session state, the widgets, the map and the panel.
C6_AllOrNothing ==
    (out.ran # "never" /\ LoadFails(file))
    => /\ ~df.ok
       /\ df.rows = <<>>
       /\ out.ran = "stopped"
       /\ sid = NoId
       /\ radio = Unset
       /\ sb = NoWidget
       /\ ~map.shown
       /\ out.detail = 0

\* C6 witness: main() stopped on a workbook with one sheet lacking a column
\* and another sheet with a usable row
C6_Witness ==
    /\ out.ran = "stopped"
    /\ file.state = "ok"
    /\ \E k \in 1..Len(file.sheets) : ~file.sheets[k].columns
    /\ \E k \in 1..Len(file.sheets) :
          /\ file.sheets[k].columns
          /\ \E j \in 1..Len(file.sheets[k].rows) :
                HasCoordinates(file.sheets[k].rows[j])

\* C7 as stated: every call returns the table of the workbook as it is on
\* disk at the call, re-reading it after a change.
C7_RereadsAfterChange ==
    last.op = "Load" => df = ReadWorkbook(file)

\* C7 amended: the cache has one entry; the first call reads the workbook
\* and every later call returns the first call's result without reading,
\* also after the workbook changed.
C7_CachedOnce ==
    /\ reads <= 1
    /\ cache.full => reads = 1 /\ cache.value = ReadWorkbook(last.src)
    /\ last.op = "Load" => df = ReadWorkbook(last.src) /\ cache.full
    /\ (last.op = "Load" /\ last.hit) => df = cache.value

\* C7 witness: a call served from the cache after the workbook changed to
\* one that loads differently
C7_Witness ==
    /\ last.op = "Load"
    /\ last.hit
    /\ edits > 0
    /\ df # ReadWorkbook(file)

\* C8: a click on the map leaves the stored id and the station type as they
\* were and makes the record at the clicked place the pending candidate; the
\* confirmation writes the candidate's id in string form and leaves the
\* station type as it was.
C8_ClickNeedsConfirmation ==
    /\ last.op = "Click"
       => /\ sid = last.sid
          /\ radio = last.radio
          /\ out.button
          /\ out.cand # 0
          /\ df.rows[out.cand].latt_station = df.rows[last.arg].latt_station
          /\ df.rows[out.cand].long_station = df.rows[last.arg].long_station
    /\ last.op = "Confirm"
       => /\ radio = last.radio
          /\ last.assigned = PyStr(df.rows[last.cand].id_station)
          /\ PyStr(df.rows[last.cand].id_station) \in IdsOf(radio)
             => sid.val = PyStr(df.rows[last.cand].id_station)

\* C8 witness: the confirmation of a candidate, found by a click on a marker
\* other than the selected station's, that changed the stored id
C8_Witness ==
    /\ last.op = "Confirm"
    /\ last.cand # 0
    /\ sid # last.sid
    /\ sid.val = last.assigned

\* C9: after the first run the station type is that of the first record and
\* the stored id is "10001" if the first type has a record with that id,
\* else the id of the first record of that type.
C9_InitialSelection ==
    (last.op = "Start" /\ df.ok /\ df.rows # <<>>)
    => /\ radio = df.rows[1].JENIS
       /\ sid.val = IF DefaultId \in IdsOf(radio) THEN DefaultId
                    ELSE FirstIdOf(radio)

\* C10: a run whose active partition is empty shows the warning, renders
\* neither the selected-site panel nor a starred marker, and ends without
\* an error.
C10_EmptyPartition ==
    out.warned
    => /\ out.ran = "done"
       /\ out.detail = 0
       /\ map.red = {}

\* C11: the selected-site panel, the popup and the directory render a
\* record without an install date without raising, and show 'N/A' in the
\* place of the date.
C11_MissingDateRenders ==
    /\ (last.op \in {"detail", "popup"} /\ IsNa(df.rows[last.arg].tgl_pasang))
       => out.err = "" /\ out.text = <<NA>>
    /\ last.op = "search"
       => /\ out.err \notin {"AttributeError", "ValueError"}
          /\ \A k \in 1..Len(out.text) :
                IsNa(df.rows[out.rows[k]].tgl_pasang) => out.text[k] = NA

\* the squared distance of the record at position i from the point pt
SquaredDistance(i, pt) ==
    (pt[1] - df.rows[i].latt_station.val) * (pt[1] - df.rows[i].latt_station.val)
    + (pt[2] - df.rows[i].long_station.val) * (pt[2] - df.rows[i].long_station.val)

\* C12: the record found for a clicked point is a record of the whole table
\* at the least squared distance from the point, and the first such record
\* in table order; the point and the table determine it.
C12_Nearest ==
    last.op = "nearest"
    => /\ Len(out.rows) = 1
       /\ out.rows[1] \in 1..Len(df.rows)
       /\ \A j \in 1..Len(df.rows) :
             SquaredDistance(out.rows[1], last.arg) <= SquaredDistance(j, last.arg)
       /\ \A j \in 1..(out.rows[1] - 1) :
             SquaredDistance(out.rows[1], last.arg) < SquaredDistance(j, last.arg)

\* C12 witness: two records of different station types at the same least
\* distance from the point, none of them at the point
C12_Witness ==
    /\ last.op = "nearest"
    /\ SquaredDistance(out.rows[1], last.arg) > 0
    /\ \E j \in 1..Len(df.rows) :
          /\ j # out.rows[1]
          /\ df.rows[j].JENIS # df.rows[out.rows[1]].JENIS
          /\ SquaredDistance(j, last.arg) = SquaredDistance(out.rows[1], last.arg)

\* the position in the unified table of the j-th row of the k-th sheet of
\* workbook wb, a row that has both coordinates
PlaceOf(wb, k, j) ==
    CountValid(SubSeq(wb.sheets, 1, k - 1))
    + Cardinality({i \in 1..j : HasCoordinates(wb.sheets[k].rows[i])})

HasSubstring(c, term) ==
    /\ c.kind = "str"
    /\ \E p \in 1..(Len(c.val) - Len(term) + 1) :
          \A i \in 1..Len(term) : Lower(c.val[p + i - 1]) = Lower(term[i])

\* C14: the search yields, in table order, the records whose name, province
\* or district holds the term as a literal substring ignoring case, and the
\* whole table for an empty term, and does not raise.
C14_SearchLiteral ==
    last.op = "search"
    => /\ out.err \notin {"re.error"}
       /\ out.err = ""
          => out.rows =
                SelectSeq([i \in 1..Len(df.rows) |-> i],
                          LAMBDA i :
                             \/ last.arg = <<>>
                             \/ HasSubstring(df.rows[i].name_station, last.arg)
                             \/ HasSubstring(df.rows[i].nama_propinsi, last.arg)
                             \/ HasSubstring(df.rows[i].nama_kota, last.arg))

\* C15: choosing an entry of the station picker does not raise and stores
\* the id, in string form, of the record the entry stands for: the first
\* token of the record's display string is its id.
C15_DisplayRoundTrip ==
    last.op = "choose"
    => /\ out.err = ""
       /\ out.text = <<PyStr(df.rows[out.rows[1]].id_station)>>

\* C16: in the display list of a station type, two records with different
\* ids have different display strings.
C16_DisplayInjective ==
    last.op = "filter"
    => \A a, b \in 1..Len(out.rows) :
          PyStr(df.rows[out.rows[a]].id_station)
             # PyStr(df.rows[out.rows[b]].id_station)
          => filtered_display_list(df.rows, out.rows)[a]
                # filtered_display_list(df.rows, out.rows)[b]

\* C17: the filter by station type yields the positions of exactly the
\* records of that type, in ascending order, that is in table order; for a
\* type no record has it yields the empty sequence and does not raise.
C17_FilterByType ==
    last.op = "filter"
    => /\ out.err = ""
       /\ {out.rows[k] : k \in 1..Len(out.rows)}
             = {i \in 1..Len(df.rows) : df.rows[i].JENIS = last.arg}
       /\ \A a, b \in 1..Len(out.rows) : a < b => out.rows[a] < out.rows[b]

\* C17 witness: a filter by a type that no record of a non-empty table has,
\* which found nothing
C17_Witness ==
    /\ last.op = "filter"
    /\ df.rows # <<>>
    /\ \A i \in 1..Len(df.rows) : df.rows[i].JENIS # last.arg
    /\ out.rows = <<>>

\* C18: at the end of every run with a non-empty active partition the
\* stored id is the first token of the station picker's value and the id of
\* a record of the active type.
C18_SelectionInSync ==
    (out.ran \in {"done", "error"} /\ PartitionOf(radio) # {})
    => /\ sb.value \in 1..Len(sb.options)
       /\ sb.options[sb.value].kind = "str"
       /\ sid.val = SplitFirst(sb.options[sb.value].val, Sep)
       /\ sid.val \in IdsOf(radio)

\* C19: the station type selector offers each station type that has a
\* record in the table once, in the order of the types' first records; the
\* name of a sheet without a row that has both coordinates is not offered;
\* on a non-empty table the selected type is an offered one and its
\* partition is not empty.
C19_OfferedTypes ==
    last.op = "type"
    => /\ \A a, b \in 1..Len(out.text) : a < b => out.text[a] # out.text[b]
       /\ {out.text[k] : k \in 1..Len(out.text)}
             = {df.rows[i].JENIS : i \in 1..Len(df.rows)}
       /\ \A a, b \in 1..Len(out.text) :
             a < b => Min(PartitionOf(out.text[a])) < Min(PartitionOf(out.text[b]))
       /\ \A k \in 1..Len(file.sheets) :
             (\A j \in 1..Len(file.sheets[k].rows) :
                 ~HasCoordinates(file.sheets[k].rows[j]))
             => \A a \in 1..Len(out.text) : out.text[a] # file.sheets[k].name
       /\ df.rows # <<>>
          => /\ \E a \in 1..Len(out.text) : out.text[a] = radio
             /\ out.rows # <<>>
             /\ PartitionOf(radio) # {}

\* C19 witness: the selector on a table loaded from a workbook whose first
\* sheet has rows, all of them without coordinates, and whose second sheet
\* has a usable row
C19_Witness ==
    /\ last.op = "type"
    /\ file.sheets[1].rows # <<>>
    /\ \A j \in 1..Len(file.sheets[1].rows) :
          ~HasCoordinates(file.sheets[1].rows[j])
    /\ df.rows # <<>>
    /\ radio = file.sheets[2].name

\* C20: a load that failed is cached: the call that follows a failed one,
\* whatever happened to the workbook in between, fails too and reads
\* nothing, and the cache holds the failure.
C20_FailureCached ==
    [][/\ (last'.op = "Load" /\ ~df'.ok) => (cache'.full /\ ~cache'.value.ok)
       /\ (reads >= 1 /\ ~df.ok /\ last'.op = "Load")
          => (~df'.ok /\ reads' = reads /\ cache' = cache)]_vars

\* C20 witness: a call that returned the cached failure although the
\* workbook on disk has been corrected and would load
C20_Witness ==
    /\ last.op = "Load"
    /\ last.hit
    /\ ~df.ok
    /\ edits > 0
    /\ ReadWorkbook(file).ok

====
